---------------------------- MODULE Spec2Model ----------------------------
(***************************************************************************)
(* Model of the Wildberries video-review downloader                        *)
(* (src/wb_downloader.py, src/main.py).                                    *)
(*                                                                         *)
(* Strings are sequences of one-character strings, except that a name      *)
(* whose inner characters never matter ("https", "index.m3u8",             *)
(* "preview.webp", "wildberries.ru") is kept as one element.  Byte strings *)
(* are sequences of numbers.                                               *)
(***************************************************************************)
EXTENDS Integers, Sequences, FiniteSets, TLC

VARIABLES
    pc,             \* position of main()/download() in the code
    server_text,    \* the playlist text the server holds
    run,            \* which invocation of the command this is: 1 or 2
    prev_stream,    \* the video_data the invocation before this one joined
    playlist_requests, \* how many GETs of the playlist URL were sent
    quit_calls,     \* how many times driver.quit() was called
    url,            \* self.url: the netloc of the page URL
    temp_dir,       \* self.temp_dir on disk: [exists, ts], ts = temp_video.ts
    driver,         \* the local `driver` of download(): "none", "active", "quit"
    video_src,      \* the local `video_src` (m3u8_url); <<>> while None
    resp,           \* the playlist response the GET of line 227 produced
    content,        \* the local `content` of _download_playlist
    base_url,       \* the local `base_url` of download()
    segment_files,  \* the local `segment_files` of download()
    session,        \* the ClientSession of _download_all_segments
    tasks,          \* the fetch tasks asyncio.gather holds, in argument order
    gather,         \* the future gather() returned
    done_order,     \* the indices of the tasks that returned, in completion order
    video_data,     \* the local `video_data` of download()
    ffmpeg,         \* the subprocess runs of ffmpeg: the inputs it was given
    output_file,    \* the file at self.output_path
    result,         \* what download() returned: "none", "True", "False";
                    \* "raised" when an exception left it instead
    failed_stage,   \* the stage the run failed in; "none" while it has not
    cleanup_called, \* whether _cleanup_temp_files has been called
    exit_code       \* the status main() gave sys.exit; -1 while running

vars == << pc, server_text, run, prev_stream, playlist_requests, quit_calls,
           url, temp_dir, driver, video_src, resp, content, base_url,
           segment_files, session, tasks, gather, done_order, video_data,
           ffmpeg, output_file, result, failed_stage, cleanup_called,
           exit_code >>

(***************************************************************************)
(* Bounds of the model.                                                    *)
(***************************************************************************)
MaxSegs == 3        \* segments of a playlist the pipeline is run on
MaxTextLen == 4     \* characters of a playlist text given to the parser
MaxRefLen == 4      \* characters of a segment reference given to urljoin
MaxRerunSegs == 2   \* segments of a playlist the command is run on twice
MaxInterruptSegs == 2   \* segments of a playlist of an interrupted run

(***************************************************************************)
(* Sequences.                                                              *)
(***************************************************************************)
SeqsUpTo(S, n) == UNION { [1..k -> S] : k \in 0..n }

Range(s) == { s[i] : i \in 1..Len(s) }

RECURSIVE Concat(_)
Concat(ss) == IF ss = <<>> THEN <<>> ELSE Head(ss) \o Concat(Tail(ss))

\* The positions of s holding x.
Positions(s, x) == { i \in 1..Len(s) : s[i] = x }

SetMax(S) == CHOOSE m \in S : \A k \in S : k <= m
SetMin(S) == CHOOSE m \in S : \A k \in S : m <= k

(***************************************************************************)
(* Python's str methods, as the code uses them.                            *)
(***************************************************************************)
Whitespace == {" ", "\n"}

\* str.strip(): without leading and trailing whitespace.
Strip(s) ==
    LET keep == { i \in 1..Len(s) : s[i] \notin Whitespace }
    IN  IF keep = {} THEN <<>> ELSE SubSeq(s, SetMin(keep), SetMax(keep))

\* str.split(sep): the pieces between the occurrences of the character sep.
RECURSIVE Split(_, _)
Split(s, sep) ==
    LET at == Positions(s, sep)
    IN  IF at = {} THEN << s >>
        ELSE << SubSeq(s, 1, SetMin(at) - 1) >>
             \o Split(SubSeq(s, SetMin(at) + 1, Len(s)), sep)

\* str.startswith(c) for a one-character c.
StartsWith(s, c) == Len(s) >= 1 /\ s[1] = c

\* s.rsplit(sep, 1)[0]: s up to its last sep, excluded; s itself without one.
RSplitHead(s, sep) ==
    LET at == Positions(s, sep)
    IN  IF at = {} THEN s ELSE SubSeq(s, 1, SetMax(at) - 1)

\* [f(x) for x in s if p(x)] for the comprehension of lines 235-239.
RECURSIVE SegmentLines(_)
SegmentLines(lines) ==
    IF lines = <<>> THEN <<>>
    ELSE LET line == Head(lines)
         IN  (IF Strip(line) # <<>> /\ ~StartsWith(line, "#")
              THEN << Strip(line) >> ELSE <<>>)
             \o SegmentLines(Tail(lines))

\* A parser that forgets the comment filter of line 238 (fault injection).
RECURSIVE NonBlankLines(_)
NonBlankLines(lines) ==
    IF lines = <<>> THEN <<>>
    ELSE (IF Strip(Head(lines)) # <<>> THEN << Strip(Head(lines)) >> ELSE <<>>)
         \o NonBlankLines(Tail(lines))

ParseSegmentsKeepingComments(text) == NonBlankLines(Split(Strip(text), "\n"))

\* Lines 234-239: the segment references of a playlist text.
ParseSegments(text) == SegmentLines(Split(Strip(text), "\n"))

\* Line 244: m3u8_url.rsplit('/', 1)[0] + '/'.
BaseUrlOf(m3u8_url) == RSplitHead(m3u8_url, "/") \o << "/" >>

(***************************************************************************)
(* urllib.parse.urljoin, which line 267 applies to every segment           *)
(* reference.  The model covers URLs without query, fragment and params:   *)
(* a scheme, a netloc and a path.  The scheme "https" is one element.      *)
(***************************************************************************)
NotLetter == {"/", ":", ".", "#", " ", "\n"}

\* A scheme starts with a letter and holds letters, digits, "+", "-", ".".
SchemeChar(c) == c \notin (NotLetter \ {"."})

\* urlsplit: the scheme of u, <<>> without one.
UrlScheme(u) ==
    LET colons == Positions(u, ":")
    IN  IF colons = {} THEN <<>>
        ELSE LET i == SetMin(colons)
             IN  IF i > 1 /\ u[1] \notin NotLetter
                    /\ \A k \in 1..(i - 1) : SchemeChar(u[k])
                 THEN SubSeq(u, 1, i - 1) ELSE <<>>

AfterScheme(u) ==
    IF UrlScheme(u) = <<>> THEN u ELSE SubSeq(u, Len(UrlScheme(u)) + 2, Len(u))

\* urlsplit: the text after "//" up to the next "/".
UrlNetloc(u) ==
    LET rest == AfterScheme(u)
    IN  IF Len(rest) >= 2 /\ rest[1] = "/" /\ rest[2] = "/"
        THEN LET after == SubSeq(rest, 3, Len(rest))
                 sl == Positions(after, "/")
             IN  IF sl = {} THEN after ELSE SubSeq(after, 1, SetMin(sl) - 1)
        ELSE <<>>

UrlPath(u) ==
    LET rest == AfterScheme(u)
    IN  IF Len(rest) >= 2 /\ rest[1] = "/" /\ rest[2] = "/"
        THEN SubSeq(rest, 3 + Len(UrlNetloc(u)), Len(rest))
        ELSE rest

\* The schemes of uses_relative and uses_netloc that occur: '' and https.
UsesRelative(scheme) == scheme \in { <<>>, <<"https">> }
UsesNetloc(scheme) == scheme \in { <<>>, <<"https">> }

\* urlunsplit, for a URL without query and fragment.
UrlUnsplit(scheme, netloc, path) ==
    LET slashed == IF path # <<>> /\ path[1] # "/" THEN << "/" >> \o path ELSE path
        doubled == Len(path) >= 2 /\ path[1] = "/" /\ path[2] = "/"
        body == IF netloc # <<>>
                   \/ (scheme # <<>> /\ UsesNetloc(scheme) /\ ~doubled)
                THEN << "/", "/" >> \o netloc \o slashed
                ELSE path
    IN  IF scheme # <<>> THEN scheme \o << ":" >> \o body ELSE body

\* '/'.join(parts)
RECURSIVE JoinSlash(_)
JoinSlash(parts) ==
    IF parts = <<>> THEN <<>>
    ELSE IF Len(parts) = 1 THEN parts[1]
    ELSE parts[1] \o << "/" >> \o JoinSlash(Tail(parts))

\* filter(None, parts): without the empty parts.
RECURSIVE NonEmpty(_)
NonEmpty(parts) ==
    IF parts = <<>> THEN <<>>
    ELSE (IF Head(parts) = <<>> THEN <<>> ELSE << Head(parts) >>)
         \o NonEmpty(Tail(parts))

\* The loop of urljoin over the path segments: ".." pops, "." is skipped.
RECURSIVE ResolveDots(_, _)
ResolveDots(segments, resolved_path) ==
    IF segments = <<>> THEN resolved_path
    ELSE LET seg == Head(segments)
         IN  IF seg = << ".", "." >>
             THEN ResolveDots(Tail(segments),
                      IF resolved_path = <<>> THEN <<>>
                      ELSE SubSeq(resolved_path, 1, Len(resolved_path) - 1))
             ELSE IF seg = << "." >>
             THEN ResolveDots(Tail(segments), resolved_path)
             ELSE ResolveDots(Tail(segments), Append(resolved_path, seg))

\* The path urljoin resolves a non-empty reference path to.
MergePath(bpath, path) ==
    LET parts == Split(bpath, "/")
        base_parts == IF parts[Len(parts)] # <<>>
                      THEN SubSeq(parts, 1, Len(parts) - 1) ELSE parts
        joined == base_parts \o Split(path, "/")
        segments ==
            IF path[1] = "/" THEN Split(path, "/")
            ELSE IF Len(joined) <= 2 THEN joined
            ELSE << joined[1] >>
                 \o NonEmpty(SubSeq(joined, 2, Len(joined) - 1))
                 \o << joined[Len(joined)] >>
        last == segments[Len(segments)]
        walked == ResolveDots(segments, <<>>)
        resolved_path == IF last \in { << "." >>, << ".", "." >> }
                         THEN Append(walked, <<>>) ELSE walked
    IN  IF JoinSlash(resolved_path) = <<>> THEN << "/" >>
        ELSE JoinSlash(resolved_path)

\* Joining by concatenation alone (fault injection).
SiblingJoin(base, ref) == base \o ref

\* urljoin(base, ref)
UrlJoin(base, ref) ==
    IF base = <<>> THEN ref
    ELSE IF ref = <<>> THEN base
    ELSE LET bscheme == UrlScheme(base)
             scheme == IF UrlScheme(ref) = <<>> THEN bscheme ELSE UrlScheme(ref)
         IN  IF scheme # bscheme \/ ~UsesRelative(scheme) THEN ref
             ELSE IF UsesNetloc(scheme) /\ UrlNetloc(ref) # <<>>
             THEN UrlUnsplit(scheme, UrlNetloc(ref), UrlPath(ref))
             ELSE LET netloc == IF UsesNetloc(scheme)
                                THEN UrlNetloc(base) ELSE UrlNetloc(ref)
                  IN  IF UrlPath(ref) = <<>>
                      THEN UrlUnsplit(scheme, netloc, UrlPath(base))
                      ELSE UrlUnsplit(scheme, netloc,
                                      MergePath(UrlPath(base), UrlPath(ref)))

(***************************************************************************)
(* The world the program runs in: the pages, the server, the tools.        *)
(***************************************************************************)
\* Netlocs of the page URL given on the command line: a host, or
\* userinfo, "@" and a host.
PageNetlocs ==
    { << "www.", "wildberries.ru" >>,
      << "wildberries.ru", "@", "example.com" >>,
      << "example.com" >> }

\* The playlist URL the page holds, and the preview image beside it.
PlaylistUrl == << "https", ":", "/", "/", "x", "/", "a", "/", "index.m3u8" >>
PreviewUrl == << "https", ":", "/", "/", "x", "/", "a", "/", "preview.webp" >>

\* What a page shows the three discovery methods of download().
Pages ==
    [ first : { <<>>, PlaylistUrl },        \* _find_video_source, line 338
      play : BOOLEAN,                       \* _trigger_video_play, line 343
      second : { <<>>, PlaylistUrl },       \* _find_video_source, line 345
      section : BOOLEAN,                    \* _wait_for_element, line 353
      previews : { <<>>, << PreviewUrl >> } ]   \* _extract_video_previews

\* HTTP statuses a server answers with.
Statuses == {200, 206, 404}

\* Names of the segments the server holds, and their bytes.
SegmentNames == {"seg0.ts", "seg1.ts"}

SegmentBytes(segment_url) ==
    IF segment_url[Len(segment_url)] = "seg0.ts" THEN << 0, 1, 2, 3 >>
    ELSE << 255, 238 >>

\* The playlist text that lists the references refs: a tag line, then a line
\* for each reference.
RECURSIVE RefLines(_)
RefLines(refs) ==
    IF refs = <<>> THEN <<>>
    ELSE Head(refs) \o << "\n" >> \o RefLines(Tail(refs))

PlaylistText(refs) == << "#", "\n" >> \o RefLines(refs)

\* The playlist texts the server of the pipeline runs holds.
ServedTexts ==
    { PlaylistText(refs) :
        refs \in { [i \in 1..Len(names) |-> << names[i] >>] :
                     names \in SeqsUpTo(SegmentNames, MaxSegs) } }
    \cup { <<>>, << " ", "\n" >> }

\* str.replace(old, new) for names kept as one element.
Replace(s, old, new) == [i \in 1..Len(s) |-> IF s[i] = old THEN new ELSE s[i]]

NoResponse == [kind |-> "none", status |-> 0, body |-> <<>>]

(***************************************************************************)
(* The state after main() has built the downloader (main.py line 47):      *)
(* __init__ has made temp_downloads (lines 190-191), nothing has run.      *)
(***************************************************************************)
EmptyTempDir == [exists |-> TRUE, ts_exists |-> FALSE, ts |-> <<>>]

NoOutput == [exists |-> FALSE, stream |-> <<>>]

Init ==
    /\ pc = "validate"
    /\ server_text \in ServedTexts
    /\ run = 1
    /\ prev_stream = <<>>
    /\ playlist_requests = 0
    /\ quit_calls = 0
    /\ url \in PageNetlocs
    /\ temp_dir = EmptyTempDir
    /\ driver = "none"
    /\ video_src = <<>>
    /\ resp = NoResponse
    /\ content = <<>>
    /\ base_url = <<>>
    /\ segment_files = <<>>
    /\ session = "none"
    /\ tasks = <<>>
    /\ gather = "none"
    /\ done_order = <<>>
    /\ video_data = <<>>
    /\ ffmpeg = <<>>
    /\ output_file = NoOutput
    /\ result = "none"
    /\ failed_stage = "none"
    /\ cleanup_called = FALSE
    /\ exit_code = -1

(***************************************************************************)
(* download(), lines 317-372: validation, the browser, discovery.          *)
(***************************************************************************)
\* _validate_url: 'wildberries.ru' in parsed.netloc
ValidUrl(netloc) == "wildberries.ru" \in Range(netloc)

\* Lines 319-321: an invalid URL returns False before the try statement.
ValidateUrl ==
    /\ pc = "validate"
    /\ IF ValidUrl(url)
       THEN /\ pc' = "setup"
            /\ UNCHANGED << result, failed_stage >>
       ELSE /\ pc' = "returned"
            /\ result' = "False"
            /\ failed_stage' = "validation"
    /\ UNCHANGED << server_text, run, prev_stream, playlist_requests,
                    quit_calls >>
    /\ UNCHANGED << url, temp_dir, driver, video_src, resp, content, base_url,
                    segment_files, session, tasks, gather, done_order,
                    video_data, ffmpeg, output_file, cleanup_called, exit_code >>

\* Line 329: webdriver.Chrome(...) returns a session or raises.
SetupWebdriver ==
    /\ pc = "setup"
    /\ \E started \in BOOLEAN :
         IF started
         THEN /\ driver' = "active"
              /\ pc' = "discover"
              /\ UNCHANGED failed_stage
         ELSE /\ pc' = "except"
              /\ failed_stage' = "discovery"
              /\ UNCHANGED driver
    /\ UNCHANGED << server_text, run, prev_stream, playlist_requests,
                    quit_calls >>
    /\ UNCHANGED << url, temp_dir, video_src, resp, content, base_url,
                    segment_files, session, tasks, gather, done_order,
                    video_data, ffmpeg, output_file, result, cleanup_called,
                    exit_code >>

\* Lines 338-368: the source the three methods settle on; <<>> is None, and
\* "return" stands for the two `return False` of lines 356 and 362.
DiscoveredSource(page) ==
    LET direct == page.first
        played == IF direct # <<>> THEN direct
                  ELSE IF page.play THEN page.second ELSE <<>>
    IN  IF played # <<>> THEN played
        ELSE IF ~page.section THEN << "return" >>
        ELSE IF page.previews = <<>> THEN << "return" >>
        ELSE Replace(page.previews[1], "preview.webp", "index.m3u8")

\* Lines 331-372: load the page and look for the playlist URL.  A selenium
\* call that raises outside the helpers' own handlers lands in line 393.
DiscoverSource ==
    /\ pc = "discover"
    /\ \E page \in Pages, raises \in BOOLEAN :
         LET src == DiscoveredSource(page)
         IN  IF raises
             THEN /\ pc' = "except"
                  /\ failed_stage' = "discovery"
                  /\ UNCHANGED << video_src, result >>
             ELSE IF src = << "return" >> \/ src = <<>>
             THEN /\ pc' = "finally"
                  /\ result' = "False"
                  /\ failed_stage' = "discovery"
                  /\ UNCHANGED video_src
             ELSE /\ pc' = "get_playlist"
                  /\ video_src' = src
                  /\ UNCHANGED << result, failed_stage >>
    /\ UNCHANGED << server_text, run, prev_stream, playlist_requests,
                    quit_calls >>
    /\ UNCHANGED << url, temp_dir, driver, resp, content, base_url,
                    segment_files, session, tasks, gather, done_order,
                    video_data, ffmpeg, output_file, cleanup_called, exit_code >>

(***************************************************************************)
(* _download_playlist, lines 223-249.                                      *)
(***************************************************************************)
\* What the GET of the playlist URL can come back with when the server
\* holds text.
PlaylistResponses(text) ==
    [kind : {"response"}, status : Statuses, body : {text}]
    \cup [kind : {"transport", "timeout"}, status : {0}, body : { <<>> }]

\* A status check that accepts the whole 2xx range (fault injection).
StatusOk2xx(status) == status \in 200..299

\* A status check that accepts everything (fault injection).
StatusOkAlways(status) == TRUE

\* Lines 228 and 256: `response.status != 200` raises.
StatusOk(status) == status = 200

\* Lines 225-227: the request is sent and the coroutine waits for the answer.
PlaylistGet ==
    /\ pc = "get_playlist"
    /\ \E r \in PlaylistResponses(server_text) : resp' = r
    /\ playlist_requests' = playlist_requests + 1
    /\ pc' = "playlist_status"
    /\ UNCHANGED << server_text, run, prev_stream, quit_calls >>
    /\ UNCHANGED << url, temp_dir, driver, video_src, content, base_url,
                    segment_files, session, tasks, gather, done_order,
                    video_data, ffmpeg, output_file, result, failed_stage,
                    cleanup_called, exit_code >>

\* A playlist fetch that is tried a second time when the first try fails
\* (fault injection).
PlaylistStatusRetrying ==
    /\ pc = "playlist_status"
    /\ IF resp.kind = "response" /\ resp.status = 200
       THEN /\ pc' = "playlist_text"
            /\ UNCHANGED failed_stage
       ELSE IF playlist_requests < 2
       THEN /\ pc' = "get_playlist"
            /\ UNCHANGED failed_stage
       ELSE /\ pc' = "except"
            /\ failed_stage' = "playlist_fetch"
    /\ UNCHANGED << server_text, run, prev_stream, playlist_requests,
                    quit_calls >>
    /\ UNCHANGED << url, temp_dir, driver, video_src, resp, content, base_url,
                    segment_files, session, tasks, gather, done_order,
                    video_data, ffmpeg, output_file, result, cleanup_called,
                    exit_code >>

\* Lines 227-229, 247-249: a transport error or timeout raises out of the
\* GET, any status but 200 raises; the handler logs and raises again.
PlaylistStatus ==
    /\ pc = "playlist_status"
    /\ IF resp.kind = "response" /\ StatusOk(resp.status)
       THEN /\ pc' = "playlist_text"
            /\ UNCHANGED failed_stage
       ELSE /\ pc' = "except"
            /\ failed_stage' = "playlist_fetch"
    /\ UNCHANGED << server_text, run, prev_stream, playlist_requests,
                    quit_calls >>
    /\ UNCHANGED << url, temp_dir, driver, video_src, resp, content, base_url,
                    segment_files, session, tasks, gather, done_order,
                    video_data, ffmpeg, output_file, result, cleanup_called,
                    exit_code >>

\* Lines 231-245: the text is parsed; no segment raises, otherwise
\* download() receives base_url and segment_files (line 377).
ParsePlaylist ==
    /\ pc = "playlist_text"
    /\ content' = resp.body
    /\ IF ParseSegments(resp.body) = <<>>
       THEN /\ pc' = "except"
            /\ failed_stage' = "parse"
            /\ UNCHANGED << base_url, segment_files >>
       ELSE /\ pc' = "download_segments"
            /\ base_url' = BaseUrlOf(video_src)
            /\ segment_files' = ParseSegments(resp.body)
            /\ UNCHANGED failed_stage
    /\ UNCHANGED << server_text, run, prev_stream, playlist_requests,
                    quit_calls >>
    /\ UNCHANGED << url, temp_dir, driver, video_src, resp, session, tasks,
                    gather, done_order, video_data, ffmpeg, output_file,
                    result, cleanup_called, exit_code >>

(***************************************************************************)
(* _download_all_segments and _download_segment, lines 251-275.            *)
(*                                                                         *)
(* asyncio.gather wraps every coroutine in a task; the tasks run while     *)
(* download() is suspended in an await.  gather's future takes the first   *)
(* exception a task raises and leaves the other tasks running; without an  *)
(* exception it takes the results once every task has returned, in the     *)
(* order of its arguments.                                                 *)
(***************************************************************************)
NewTask(segment_url) ==
    [url |-> segment_url, state |-> "requesting", status |-> 0,
     err |-> "none", data |-> <<>>]

\* The bytes of a body that have arrived when its headers are handled.
FirstChunk(bytes) == SubSeq(bytes, 1, Len(bytes) \div 2)

\* gather with return_exceptions=True: it waits for every task and never
\* raises (fault injection).
GatherAfterCollecting(g, ts) ==
    IF g # "pending" THEN g
    ELSE IF \A i \in 1..Len(ts) : ts[i].state \in {"done", "failed"}
    THEN "result"
    ELSE "pending"

\* A wait that returns with the first task that has finished, as
\* asyncio.wait(return_when=FIRST_COMPLETED) would (fault injection).
GatherAfterFirstDone(g, ts) ==
    IF g # "pending" THEN g
    ELSE IF \E i \in 1..Len(ts) : ts[i].state = "failed" THEN "exception"
    ELSE IF \E i \in 1..Len(ts) : ts[i].state = "done" THEN "result"
    ELSE "pending"

\* The callback gather puts on every task (return_exceptions=False).
GatherAfter(g, ts) ==
    IF g # "pending" THEN g
    ELSE IF \E i \in 1..Len(ts) : ts[i].state = "failed" THEN "exception"
    ELSE IF \A i \in 1..Len(ts) : ts[i].state = "done" THEN "result"
    ELSE "pending"

\* Results taken in completion order, as asyncio.as_completed would give
\* them (fault injection).
GatherResultsAsCompleted(ts, order) ==
    [k \in 1..Len(order) |-> ts[order[k]].data]

\* The list gather returns: the tasks' results in argument order.
GatherResults(ts, order) == [i \in 1..Len(ts) |-> ts[i].data]

\* The event loop runs tasks only while download() is suspended in an await
\* with tasks alive: line 272, and the session's exit of line 265.
LoopRuns == pc \in {"await_gather", "close_session"}

\* Lines 265-272: the session opens, one coroutine per segment is built on
\* the joined URL, gather starts them and download() waits.
DownloadAllSegmentsStart ==
    /\ pc = "download_segments"
    /\ session' = "open"
    /\ tasks' = [i \in 1..Len(segment_files) |->
                   NewTask(UrlJoin(base_url, segment_files[i]))]
    /\ gather' = IF segment_files = <<>> THEN "result" ELSE "pending"
    /\ pc' = "await_gather"
    /\ UNCHANGED << server_text, run, prev_stream, playlist_requests,
                    quit_calls >>
    /\ UNCHANGED << url, temp_dir, driver, video_src, resp, content, base_url,
                    segment_files, done_order, video_data, ffmpeg,
                    output_file, result, failed_stage, cleanup_called,
                    exit_code >>

\* Lines 255-257, 259-261: the answer to a segment request arrives.  A
\* status other than 200 raises, as does a transport error or a timeout.
SegmentHeaders(i) ==
    /\ LoopRuns
    /\ tasks[i].state = "requesting"
    /\ \E kind \in {"response", "transport", "timeout"}, s \in Statuses :
         LET t == tasks[i]
             after ==
                 IF kind # "response"
                 THEN [t EXCEPT !.state = "failed", !.err = kind]
                 ELSE IF StatusOk(s)
                 THEN [t EXCEPT !.state = "reading", !.status = s,
                                !.data = FirstChunk(SegmentBytes(t.url))]
                 ELSE [t EXCEPT !.state = "failed", !.status = s,
                                !.err = "status"]
         IN  /\ tasks' = [tasks EXCEPT ![i] = after]
             /\ gather' = GatherAfter(gather, tasks')
    /\ UNCHANGED << server_text, run, prev_stream, playlist_requests,
                    quit_calls >>
    /\ UNCHANGED << pc, url, temp_dir, driver, video_src, resp, content,
                    base_url, segment_files, session, done_order, video_data,
                    ffmpeg, output_file, result, failed_stage, cleanup_called,
                    exit_code >>

\* Line 258: response.read() returns the whole body, or the connection
\* breaks or times out before it has.
SegmentRead(i) ==
    /\ LoopRuns
    /\ tasks[i].state = "reading"
    /\ \E kind \in {"response", "transport", "timeout"} :
         LET t == tasks[i]
             after ==
                 IF kind = "response"
                 THEN [t EXCEPT !.state = "done", !.data = SegmentBytes(t.url)]
                 ELSE [t EXCEPT !.state = "failed", !.err = kind]
         IN  /\ tasks' = [tasks EXCEPT ![i] = after]
             /\ gather' = GatherAfter(gather, tasks')
             /\ done_order' = IF kind = "response" /\ gather = "pending"
                              THEN Append(done_order, i) ELSE done_order
    /\ UNCHANGED << server_text, run, prev_stream, playlist_requests,
                    quit_calls >>
    /\ UNCHANGED << pc, url, temp_dir, driver, video_src, resp, content,
                    base_url, segment_files, session, video_data, ffmpeg,
                    output_file, result, failed_stage, cleanup_called,
                    exit_code >>

\* Lines 272-275: gather's future is done and download() resumes.  With the
\* results it joins them, leaves the session and returns; with an exception
\* it starts to leave the session, the exception on its way to line 393.
GatherResume ==
    /\ pc = "await_gather"
    /\ gather # "pending"
    /\ IF gather = "result"
       THEN /\ video_data' = Concat(GatherResults(tasks, done_order))
            /\ session' = "closed"
            /\ pc' = "write_temp"
            /\ UNCHANGED failed_stage
       ELSE /\ pc' = "close_session"
            /\ failed_stage' = "segments"
            /\ UNCHANGED << video_data, session >>
    /\ UNCHANGED << server_text, run, prev_stream, playlist_requests,
                    quit_calls >>
    /\ UNCHANGED << url, temp_dir, driver, video_src, resp, content, base_url,
                    segment_files, tasks, gather, done_order, ffmpeg,
                    output_file, result, cleanup_called, exit_code >>

\* Line 265, on the way out with the exception: the session is closed.
SessionExit ==
    /\ pc = "close_session"
    /\ session' = "closed"
    /\ pc' = "except"
    /\ UNCHANGED << server_text, run, prev_stream, playlist_requests,
                    quit_calls >>
    /\ UNCHANGED << url, temp_dir, driver, video_src, resp, content, base_url,
                    segment_files, tasks, gather, done_order, video_data,
                    ffmpeg, output_file, result, failed_stage, cleanup_called,
                    exit_code >>

(***************************************************************************)
(* download(), lines 383-399, and main(), lines 59-61.                     *)
(***************************************************************************)
\* The joined bytes written straight to the output path, the intermediate
\* file left out (fault injection).
WriteTempToOutput ==
    /\ pc = "write_temp"
    /\ \E written \in BOOLEAN :
         IF written /\ temp_dir.exists
         THEN /\ output_file' = [exists |-> TRUE, stream |-> video_data]
              /\ pc' = "convert"
              /\ UNCHANGED failed_stage
         ELSE /\ pc' = "except"
              /\ failed_stage' = "write"
              /\ UNCHANGED output_file
    /\ UNCHANGED << server_text, run, prev_stream, playlist_requests,
                    quit_calls >>
    /\ UNCHANGED << url, temp_dir, driver, video_src, resp, content, base_url,
                    segment_files, session, tasks, gather, done_order,
                    video_data, ffmpeg, result, cleanup_called, exit_code >>

\* Lines 384-386: temp_video.ts is written, or write_bytes raises.
WriteTemp ==
    /\ pc = "write_temp"
    /\ \E written \in BOOLEAN :
         IF written /\ temp_dir.exists
         THEN /\ temp_dir' = [exists |-> TRUE, ts_exists |-> TRUE,
                              ts |-> video_data]
              /\ pc' = "convert"
              /\ UNCHANGED failed_stage
         ELSE /\ pc' = "except"
              /\ failed_stage' = "write"
              /\ UNCHANGED temp_dir
    /\ UNCHANGED << server_text, run, prev_stream, playlist_requests,
                    quit_calls >>
    /\ UNCHANGED << url, driver, video_src, resp, content, base_url,
                    segment_files, session, tasks, gather, done_order,
                    video_data, ffmpeg, output_file, result, cleanup_called,
                    exit_code >>

\* A conversion that never looks at the return code (fault injection).
ConvertResultUnchecked(outcome) ==
    IF outcome \in {"exit0", "exit1"} THEN "True" ELSE "False"

\* Lines 294-306: what _convert_to_mp4 returns for what subprocess.run did.
ConvertResult(outcome) == IF outcome = "exit0" THEN "True" ELSE "False"

\* Lines 277-306, 389-391: ffmpeg is run on the temporary file; it exits 0
\* having written the output, exits non-zero, cannot be found
\* (FileNotFoundError) or subprocess.run raises something else.
ConvertToMp4 ==
    /\ pc = "convert"
    /\ \E outcome \in {"exit0", "exit1", "not_found", "error"} :
         /\ ffmpeg' = Append(ffmpeg, [input |-> temp_dir.ts,
                                      outcome |-> outcome])
         /\ output_file' = IF outcome = "exit0"
                           THEN [exists |-> TRUE, stream |-> temp_dir.ts]
                           ELSE output_file
         /\ result' = ConvertResult(outcome)
         /\ failed_stage' = IF outcome = "exit0" THEN "none" ELSE "remux"
    /\ pc' = "finally"
    /\ UNCHANGED << server_text, run, prev_stream, playlist_requests,
                    quit_calls >>
    /\ UNCHANGED << url, temp_dir, driver, video_src, resp, content, base_url,
                    segment_files, session, tasks, gather, done_order,
                    video_data, cleanup_called, exit_code >>

\* A handler that logs the exception and raises it again (fault
\* injection).
HandleExceptionReraising ==
    /\ pc = "except"
    /\ result' = "raised"
    /\ pc' = "finally"
    /\ UNCHANGED << server_text, run, prev_stream, playlist_requests,
                    quit_calls >>
    /\ UNCHANGED << url, temp_dir, driver, video_src, resp, content, base_url,
                    segment_files, session, tasks, gather, done_order,
                    video_data, ffmpeg, output_file, failed_stage,
                    cleanup_called, exit_code >>

\* Lines 393-395: any exception of the try block returns False.
HandleException ==
    /\ pc = "except"
    /\ result' = "False"
    /\ pc' = "finally"
    /\ UNCHANGED << server_text, run, prev_stream, playlist_requests,
                    quit_calls >>
    /\ UNCHANGED << url, temp_dir, driver, video_src, resp, content, base_url,
                    segment_files, session, tasks, gather, done_order,
                    video_data, ffmpeg, output_file, failed_stage,
                    cleanup_called, exit_code >>

\* A browser that is quit at the end of a successful run only (fault
\* injection).
FinallyQuitOnSuccess ==
    /\ pc = "finally"
    /\ driver' = IF driver = "active" /\ result = "True" THEN "quit" ELSE driver
    /\ quit_calls' = IF driver = "active" /\ result = "True"
                     THEN quit_calls + 1 ELSE quit_calls
    /\ pc' = "cleanup"
    /\ UNCHANGED << server_text, run, prev_stream, playlist_requests >>
    /\ UNCHANGED << url, temp_dir, video_src, resp, content, base_url,
                    segment_files, session, tasks, gather, done_order,
                    video_data, ffmpeg, output_file, result, failed_stage,
                    cleanup_called, exit_code >>

\* Lines 396-398: the finally block quits the browser it has.
FinallyQuit ==
    /\ pc = "finally"
    /\ driver' = IF driver = "active" THEN "quit" ELSE driver
    /\ quit_calls' = IF driver = "active" THEN quit_calls + 1 ELSE quit_calls
    /\ pc' = "cleanup"
    /\ UNCHANGED << server_text, run, prev_stream, playlist_requests >>
    /\ UNCHANGED << url, temp_dir, video_src, resp, content, base_url,
                    segment_files, session, tasks, gather, done_order,
                    video_data, ffmpeg, output_file, result, failed_stage,
                    cleanup_called, exit_code >>

\* Lines 308-315, 399: the files are unlinked and the directory removed; an
\* exception on the way is logged and ends the cleanup where it stands.
CleanupTempFiles ==
    /\ pc = "cleanup"
    /\ cleanup_called' = TRUE
    /\ \E done \in {"all", "files", "nothing"} :
         temp_dir' = IF done = "all"
                     THEN [exists |-> FALSE, ts_exists |-> FALSE, ts |-> <<>>]
                     ELSE IF done = "files" THEN EmptyTempDir
                     ELSE temp_dir
    /\ pc' = "returned"
    /\ UNCHANGED << server_text, run, prev_stream, playlist_requests,
                    quit_calls >>
    /\ UNCHANGED << url, driver, video_src, resp, content, base_url,
                    segment_files, session, tasks, gather, done_order,
                    video_data, ffmpeg, output_file, result, failed_stage,
                    exit_code >>

\* asyncio.run cancels the tasks still alive when download() has returned.
CancelAll(ts) ==
    [i \in 1..Len(ts) |->
        IF ts[i].state \in {"requesting", "reading"}
        THEN [ts[i] EXCEPT !.state = "cancelled"] ELSE ts[i]]

\* sys.exit(success): Python exits with 1 for True and 0 for False (fault
\* injection).
ExitStatusOfBool(success) == IF success = "True" THEN 1 ELSE 0

\* main.py line 61: sys.exit(0 if success else 1).
ExitStatus(success) == IF success = "True" THEN 0 ELSE 1

\* main.py lines 60-61: asyncio.run returns download()'s value after it has
\* cancelled what is left on the loop, and sys.exit turns it into the status.
MainExit ==
    /\ pc = "returned"
    /\ tasks' = CancelAll(tasks)
    /\ exit_code' = ExitStatus(result)
    /\ pc' = "exited"
    /\ UNCHANGED << server_text, run, prev_stream, playlist_requests,
                    quit_calls >>
    /\ UNCHANGED << url, temp_dir, driver, video_src, resp, content, base_url,
                    segment_files, session, gather, done_order, video_data,
                    ffmpeg, output_file, result, failed_stage, cleanup_called >>

Next ==
    \/ ValidateUrl
    \/ SetupWebdriver
    \/ DiscoverSource
    \/ PlaylistGet
    \/ PlaylistStatus
    \/ ParsePlaylist
    \/ DownloadAllSegmentsStart
    \/ \E i \in 1..Len(tasks) : SegmentHeaders(i)
    \/ \E i \in 1..Len(tasks) : SegmentRead(i)
    \/ GatherResume
    \/ SessionExit
    \/ WriteTemp
    \/ ConvertToMp4
    \/ HandleException
    \/ FinallyQuit
    \/ CleanupTempFiles
    \/ MainExit

Spec == Init /\ [][Next]_vars

(***************************************************************************)
(* The command run twice.  SpecRerun follows one invocation of main() to   *)
(* its exit and then a second one on the same page, against the same       *)
(* server; the files the first left on disk are still there.               *)
(***************************************************************************)
\* main.py lines 47 and 60, a second time: __init__ makes temp_downloads
\* again (lines 190-191, exist_ok), every local starts afresh, and the
\* output file of the first invocation is where it was.
Rerun ==
    /\ pc = "exited"
    /\ run = 1
    /\ run' = 2
    /\ prev_stream' = video_data
    /\ pc' = "validate"
    /\ temp_dir' = [temp_dir EXCEPT !.exists = TRUE]
    /\ driver' = "none"
    /\ video_src' = <<>>
    /\ resp' = NoResponse
    /\ content' = <<>>
    /\ base_url' = <<>>
    /\ segment_files' = <<>>
    /\ session' = "none"
    /\ tasks' = <<>>
    /\ gather' = "none"
    /\ done_order' = <<>>
    /\ video_data' = <<>>
    /\ ffmpeg' = <<>>
    /\ result' = "none"
    /\ failed_stage' = "none"
    /\ cleanup_called' = FALSE
    /\ exit_code' = -1
    /\ playlist_requests' = 0
    /\ quit_calls' = 0
    /\ UNCHANGED << server_text, url, output_file >>

InitRerun ==
    /\ Init
    /\ Len(ParseSegments(server_text)) <= MaxRerunSegs

NextRerun ==
    \/ Next
    \/ Rerun

SpecRerun == InitRerun /\ [][NextRerun]_vars

(***************************************************************************)
(* The user's interrupt.  SpecInterrupt is Spec with a KeyboardInterrupt   *)
(* that may end asyncio.run at any point of the run.                       *)
(***************************************************************************)
\* The positions of download() inside its try statement (lines 327-392).
InTry ==
    pc \in {"setup", "discover", "get_playlist", "playlist_status",
            "playlist_text", "download_segments", "await_gather",
            "close_session", "write_temp", "convert", "except"}

\* main.py lines 60, 62-64: the interrupt leaves download() as an exception
\* that line 393 does not catch (it is no Exception).  Thrown inside the
\* try statement it passes the session's exit (line 265) and the finally
\* block, which quits the browser and cleans up; thrown before the try
\* statement, inside the finally block or after download() has returned,
\* nothing more of download() runs.  asyncio.run cancels the tasks that are
\* left and raises KeyboardInterrupt, and main() exits with 1.
Interrupt ==
    /\ pc \notin {"exited"}
    /\ pc' = "exited"
    /\ exit_code' = 1
    /\ failed_stage' = "interrupt"
    /\ result' = IF pc = "returned" THEN result ELSE "raised"
    /\ session' = IF session = "open" THEN "closed" ELSE session
    /\ driver' = IF InTry /\ driver = "active" THEN "quit" ELSE driver
    /\ quit_calls' = IF InTry /\ driver = "active"
                     THEN quit_calls + 1 ELSE quit_calls
    /\ cleanup_called' = (cleanup_called \/ InTry)
    /\ \E done \in {"all", "files", "nothing"} :
         temp_dir' = IF ~InTry THEN temp_dir
                     ELSE IF done = "all"
                     THEN [exists |-> FALSE, ts_exists |-> FALSE, ts |-> <<>>]
                     ELSE IF done = "files" THEN EmptyTempDir
                     ELSE temp_dir
    /\ tasks' = CancelAll(tasks)
    /\ UNCHANGED << server_text, run, prev_stream, playlist_requests, url,
                    video_src, resp, content, base_url, segment_files, gather,
                    done_order, video_data, ffmpeg, output_file >>

InitInterrupt ==
    /\ Init
    /\ Len(ParseSegments(server_text)) <= MaxInterruptSegs

NextInterrupt ==
    \/ Next
    \/ Interrupt

SpecInterrupt == InitInterrupt /\ [][NextInterrupt]_vars

(***************************************************************************)
(* The parser on every short text.  SpecParse starts where                 *)
(* _download_playlist has received a 200 answer (line 231) and follows the *)
(* run until download() enters the segment stage or has failed.            *)
(***************************************************************************)
TextChars == {"#", " ", "\n", "seg0.ts", "seg1.ts"}

Texts == SeqsUpTo(TextChars, MaxTextLen)

\* Playlist URLs at different depths.
ParseUrls ==
    { PlaylistUrl,
      << "https", ":", "/", "/", "x", "/", "index.m3u8" >>,
      << "https", ":", "/", "/", "x", "/", "a", "/", "b", "/", "index.m3u8" >> }

InitParse ==
    /\ pc = "playlist_text"
    /\ url = << "www.", "wildberries.ru" >>
    /\ temp_dir = EmptyTempDir
    /\ driver = "active"
    /\ video_src \in ParseUrls
    /\ resp \in [kind : {"response"}, status : {200}, body : Texts]
    /\ server_text = resp.body
    /\ run = 1
    /\ prev_stream = <<>>
    /\ playlist_requests = 1
    /\ quit_calls = 0
    /\ content = <<>>
    /\ base_url = <<>>
    /\ segment_files = <<>>
    /\ session = "none"
    /\ tasks = <<>>
    /\ gather = "none"
    /\ done_order = <<>>
    /\ video_data = <<>>
    /\ ffmpeg = <<>>
    /\ output_file = NoOutput
    /\ result = "none"
    /\ failed_stage = "none"
    /\ cleanup_called = FALSE
    /\ exit_code = -1

NextParse ==
    \/ ParsePlaylist
    \/ HandleException
    \/ FinallyQuit
    \/ CleanupTempFiles
    \/ MainExit

SpecParse == InitParse /\ [][NextParse]_vars

(***************************************************************************)
(* urljoin on every short reference.  SpecResolve starts where download()  *)
(* calls _download_all_segments (line 381) with a one-segment playlist.    *)
(***************************************************************************)
RefChars == {"a", "/", ".", ":", "https"}

AbsoluteRefs ==
    { << "https", ":", "/", "/", "y", "/", "seg0.ts" >>,
      << "https", ":", "/", "/", "y", "/", ".", ".", "/", "seg0.ts" >>,
      << "a", ":", "/", "/", "y", "/", "seg0.ts" >> }

Refs == (SeqsUpTo(RefChars, MaxRefLen) \ { <<>> }) \cup AbsoluteRefs

InitResolve ==
    /\ pc = "download_segments"
    /\ url = << "www.", "wildberries.ru" >>
    /\ temp_dir = EmptyTempDir
    /\ driver = "active"
    /\ video_src \in ParseUrls
    /\ \E ref \in Refs :
         /\ segment_files = << ref >>
         /\ content = PlaylistText(<< ref >>)
    /\ resp = [kind |-> "response", status |-> 200, body |-> content]
    /\ server_text = content
    /\ run = 1
    /\ prev_stream = <<>>
    /\ playlist_requests = 1
    /\ quit_calls = 0
    /\ base_url = BaseUrlOf(video_src)
    /\ session = "none"
    /\ tasks = <<>>
    /\ gather = "none"
    /\ done_order = <<>>
    /\ video_data = <<>>
    /\ ffmpeg = <<>>
    /\ output_file = NoOutput
    /\ result = "none"
    /\ failed_stage = "none"
    /\ cleanup_called = FALSE
    /\ exit_code = -1

NextResolve == DownloadAllSegmentsStart

SpecResolve == InitResolve /\ [][NextResolve]_vars

(***************************************************************************)
(* Properties.                                                             *)
(***************************************************************************)
AllDone == tasks # <<>> /\ \A i \in 1..Len(tasks) : tasks[i].state = "done"

AnyFailed == \E i \in 1..Len(tasks) : tasks[i].state = "failed"

BeyondSegments ==
    pc \in {"write_temp", "convert", "except", "finally", "cleanup",
            "returned", "exited"}

Returned == pc \in {"returned", "exited"}

\* The bytes of the playlist's segments, one after the other in playlist
\* order, each fetched from the URL its reference resolves to.
RECURSIVE BytesInOrder(_, _)
BytesInOrder(base, refs) ==
    IF refs = <<>> THEN <<>>
    ELSE SegmentBytes(UrlJoin(base, Head(refs)))
         \o BytesInOrder(base, Tail(refs))

RECURSIVE TotalLen(_, _)
TotalLen(base, refs) ==
    IF refs = <<>> THEN 0
    ELSE Len(SegmentBytes(UrlJoin(base, Head(refs))))
         + TotalLen(base, Tail(refs))

\* The lines of a playlist text as the format defines them: a comment line
\* begins with "#", a blank line holds nothing but whitespace, and every
\* other line is a segment reference.
CommentLine(line) == Len(line) >= 1 /\ line[1] = "#"

BlankLine(line) == \A i \in 1..Len(line) : line[i] \in {" ", "\n"}

RECURSIVE WithoutCommentsAndBlanks(_)
WithoutCommentsAndBlanks(lines) ==
    IF lines = <<>> THEN <<>>
    ELSE (IF CommentLine(Head(lines)) \/ BlankLine(Head(lines))
          THEN <<>> ELSE << Head(lines) >>)
         \o WithoutCommentsAndBlanks(Tail(lines))

ReferenceLines(text) == WithoutCommentsAndBlanks(Split(text, "\n"))

\* C1 (all-or-nothing): whatever has been assembled, written to
\* temp_video.ts or given to ffmpeg holds the payload of every segment of
\* the playlist, each task having returned; and once a segment fetch has
\* failed nothing is assembled, written or converted and download() returns
\* False.
C1_AllOrNothing ==
    /\ (video_data # <<>> \/ temp_dir.ts_exists \/ ffmpeg # <<>>)
         => /\ AllDone
            /\ Len(tasks) = Len(segment_files)
            /\ Len(video_data) = TotalLen(base_url, segment_files)
    /\ temp_dir.ts_exists
         => Len(temp_dir.ts) = TotalLen(base_url, segment_files)
    /\ \A k \in 1..Len(ffmpeg) :
         Len(ffmpeg[k].input) = TotalLen(base_url, segment_files)
    /\ AnyFailed
         => /\ video_data = <<>>
            /\ ~temp_dir.ts_exists
            /\ ffmpeg = <<>>
            /\ ~output_file.exists
            /\ pc \notin {"write_temp", "convert"}
            /\ Returned => result = "False"

\* C1 witness: a run that has ended with one segment fetched and another
\* failed.
C1_Witness ==
    /\ pc = "exited"
    /\ \E i, j \in 1..Len(tasks) :
         tasks[i].state = "done" /\ tasks[j].state = "failed"

\* C2 (ordering): when every fetch has succeeded, the assembled stream, the
\* temporary file and the input of ffmpeg are the segments' bytes in
\* playlist order, whatever the order the fetches completed in.
C2_PlaylistOrder ==
    /\ (pc \in {"write_temp", "convert"} \/ (BeyondSegments /\ AllDone))
         => video_data = BytesInOrder(base_url, segment_files)
    /\ temp_dir.ts_exists
         => temp_dir.ts = BytesInOrder(base_url, segment_files)
    /\ \A k \in 1..Len(ffmpeg) :
         ffmpeg[k].input = BytesInOrder(base_url, segment_files)

\* C2 witness: three different segments fetched in reverse order and the
\* stream written.
C2_Witness ==
    /\ pc = "convert"
    /\ done_order = << 3, 2, 1 >>
    /\ segment_files = << << "seg0.ts" >>, << "seg1.ts" >>, << "seg0.ts" >> >>
    /\ temp_dir.ts = << 0, 1, 2, 3, 255, 238, 0, 1, 2, 3 >>

\* The stage of the pipeline the run is in.
Stage ==
    CASE pc = "validate" -> "Idle"
      [] pc \in {"setup", "discover"} -> "DiscoveringSource"
      [] pc \in {"get_playlist", "playlist_status"} -> "FetchingPlaylist"
      [] pc = "playlist_text" -> "ParsingPlaylist"
      [] pc \in {"download_segments", "await_gather"} -> "FetchingSegments"
      [] pc = "write_temp" -> "Assembling"
      [] pc = "convert" -> "Remuxing"
      [] OTHER -> IF result = "True" THEN "Succeeded" ELSE "Failed"

StageOrder ==
    << "Idle", "DiscoveringSource", "FetchingPlaylist", "ParsingPlaylist",
       "FetchingSegments", "Assembling", "Remuxing", "Succeeded" >>

StageRank(st) == CHOOSE k \in 1..Len(StageOrder) : StageOrder[k] = st

\* An error the state shows before the step that handles it: a playlist
\* answer that is no 200, a text without segments, a failed segment fetch.
ErrorPending ==
    \/ pc = "playlist_status"
         /\ ~(resp.kind = "response" /\ resp.status = 200)
    \/ pc = "playlist_text" /\ ReferenceLines(resp.body) = <<>>
    \/ pc = "await_gather" /\ AnyFailed

\* C3 (short-circuit): a step keeps the stage, moves to the next stage of
\* the fixed order, or fails; a stage that has met an error fails without
\* entering a later stage; Failed and Succeeded are final; ffmpeg is only
\* run when no stage before it has failed.
C3_ShortCircuit ==
    [][ /\ \/ Stage' = Stage
           \/ Stage' = "Failed"
           \/ /\ Stage # "Failed"
              /\ Stage' # "Failed"
              /\ StageRank(Stage') = StageRank(Stage) + 1
        /\ Stage \in {"Failed", "Succeeded"} => Stage' = Stage
        /\ ErrorPending => Stage' \in {Stage, "Failed"}
        /\ failed_stage' # "none" => Stage' = "Failed"
        /\ ffmpeg' # ffmpeg
             => /\ Stage = "Remuxing"
                /\ failed_stage = "none"
                /\ resp.kind = "response" /\ resp.status = 200
                /\ segment_files # <<>>
                /\ ~AnyFailed
      ]_vars

\* C3 witness: a run that failed on a segment's 404 without running ffmpeg.
C3_Witness ==
    /\ pc = "exited"
    /\ failed_stage = "segments"
    /\ \E i \in 1..Len(tasks) : tasks[i].status = 404
    /\ ffmpeg = <<>>

\* C4 (success needs the transcoder): download() returns True only when
\* every stage before has completed and ffmpeg was run once and exited 0;
\* a missing ffmpeg, a failed run or a non-zero exit returns False.
C4_SuccessAfterRemux ==
    /\ result = "True"
         => /\ Len(ffmpeg) = 1
            /\ ffmpeg[1].outcome = "exit0"
            /\ video_src # <<>>
            /\ resp.kind = "response"
            /\ segment_files # <<>>
            /\ AllDone
            /\ driver # "none"
    /\ (ffmpeg # <<>> /\ ffmpeg[1].outcome # "exit0") => result = "False"
    /\ (Returned /\ ffmpeg = <<>>) => result = "False"

\* C4 witness: a run that has returned True after ffmpeg exited 0.
C4_Witness ==
    /\ pc = "exited"
    /\ result = "True"
    /\ ffmpeg[1].outcome = "exit0"

\* C5 (cleanup on every run): download() never returns without having
\* called _cleanup_temp_files.  The code returns from a failed validation
\* before its try statement (lines 319-321), so this does not hold.
C5_CleanupAlways == Returned => cleanup_called

\* C6 (fail-fast join with cancellation): once _download_all_segments has
\* been left, no task of the batch is still alive, and what was assembled
\* holds whole payloads only.  gather leaves the siblings of a failed task
\* running, so the first part does not hold.
C6_NoTaskOutlivesStage ==
    /\ BeyondSegments
         => \A i \in 1..Len(tasks) :
              tasks[i].state \in {"done", "failed", "cancelled"}
    /\ video_data # <<>>
         => \A i \in 1..Len(tasks) : tasks[i].data = SegmentBytes(tasks[i].url)

\* Whether the check of the playlist answer has been made.
PlaylistChecked ==
    resp.kind # "none" /\ pc \notin {"get_playlist", "playlist_status"}

\* C7 as stated (success iff 2xx): the playlist fetch has failed exactly
\* when the answer was no 2xx response, and so has every segment fetch
\* whose answer has arrived.
C7_SuccessIff2xx ==
    /\ PlaylistChecked
         => (failed_stage = "playlist_fetch"
               <=> ~(resp.kind = "response" /\ resp.status \in 200..299))
    /\ \A i \in 1..Len(tasks) :
         /\ tasks[i].state \in {"reading", "done"}
              => tasks[i].status \in 200..299
         /\ (tasks[i].status \in 200..299 /\ tasks[i].err \in {"none", "status"})
              => tasks[i].state # "failed"

\* C7 amended (success iff 200): the playlist fetch has failed exactly when
\* the answer was not a response of status 200; a segment fetch reads the
\* body only of a response of status 200, and fails on any other status, on
\* a transport error and on a timeout.
C7_SuccessIff200 ==
    /\ PlaylistChecked
         => (failed_stage = "playlist_fetch"
               <=> ~(resp.kind = "response" /\ resp.status = 200))
    /\ \A i \in 1..Len(tasks) :
         /\ tasks[i].state \in {"reading", "done"}
              => tasks[i].status = 200 /\ tasks[i].err = "none"
         /\ tasks[i].state = "failed"
              => \/ tasks[i].err \in {"transport", "timeout"}
                 \/ tasks[i].err = "status" /\ tasks[i].status # 200
         /\ tasks[i].status \notin {0, 200} => tasks[i].state = "failed"

\* C7 witness: a segment refused for its 206 next to one fetched on 200,
\* after a playlist fetched on 200.
C7_Witness ==
    /\ resp.status = 200
    /\ pc = "exited"
    /\ \E i, j \in 1..Len(tasks) :
         /\ tasks[i].state = "failed" /\ tasks[i].status = 206
         /\ tasks[j].state = "done" /\ tasks[j].status = 200

\* s up to and including its last "/".
UpToLastSlash(s) ==
    SubSeq(s, 1, SetMax({0} \cup { i \in 1..Len(s) : s[i] = "/" }))

StripAll(lines) == [i \in 1..Len(lines) |-> Strip(lines[i])]

\* C8 (parsing): a text with N >= 1 lines that are neither comments nor
\* blank parses to these N lines in their order, and base_url is the
\* playlist URL up to and including its last "/".  A first line that has
\* whitespace before its "#" is dropped by the code, so this does not hold.
C8_ParseKeepsEveryReference ==
    (pc # "playlist_text" /\ ReferenceLines(content) # <<>>)
      => /\ pc = "download_segments"
         /\ Len(segment_files) = Len(ReferenceLines(content))
         /\ segment_files = StripAll(ReferenceLines(content))
         /\ base_url = UpToLastSlash(video_src)

\* C9 (empty playlist): a text that is empty or holds only comment lines
\* and blank lines raises in the parser: no segment list is returned, no
\* fetch task is made, and download() returns False; and download() never
\* reaches _download_all_segments with an empty segment list.
C9_EmptyPlaylistFails ==
    /\ (pc # "playlist_text" /\ ReferenceLines(content) = <<>>)
         => /\ failed_stage = "parse"
            /\ pc \in {"except", "finally", "cleanup", "returned", "exited"}
            /\ segment_files = <<>>
            /\ tasks = <<>>
            /\ Returned => result = "False"
    /\ pc \in {"download_segments", "await_gather"} => segment_files # <<>>

\* C9 witness: a run that has ended on a text holding a comment line and a
\* blank line only.
C9_Witness ==
    /\ pc = "exited"
    /\ result = "False"
    /\ content = << "#", "\n", " " >>

\* A reference that is a URL of its own: a scheme, "//" and a host.
AbsoluteRef(r) ==
    \E k \in 2..Len(r) :
       /\ r[k] = ":"
       /\ r[1] \notin {"/", ":", "."}
       /\ \A j \in 1..(k - 1) : r[j] \notin {"/", ":"}
       /\ Len(r) >= k + 3
       /\ r[k + 1] = "/" /\ r[k + 2] = "/" /\ r[k + 3] # "/"

\* A reference that is a path of names: no scheme, no leading or doubled
\* "/", no "." or ".." segment.
PlainPath(r) ==
    /\ r # <<>>
    /\ ":" \notin Range(r)
    /\ \A k \in 1..Len(Split(r, "/")) :
         Split(r, "/")[k] \notin { <<>>, << "." >>, << ".", "." >> }

\* The scheme and host of an absolute URL: what precedes its third "/".
Origin(u) ==
    LET sl == { i \in 1..Len(u) : u[i] = "/" }
        third == SetMin(sl \ { SetMin(sl), SetMin(sl \ { SetMin(sl) }) })
    IN  SubSeq(u, 1, third - 1)

\* The directory above the directory d; the root is its own parent.
ParentDir(d) ==
    IF d = Origin(d) \o << "/" >> THEN d
    ELSE UpToLastSlash(SubSeq(d, 1, Len(d) - 1))

\* C10 as stated (sibling resolution): the URL a task fetches is base_url
\* followed by the reference, unless the reference is absolute, which is
\* fetched as it is.
C10_SiblingResolution ==
    pc = "await_gather"
      => \A i \in 1..Len(tasks) :
           tasks[i].url = IF AbsoluteRef(segment_files[i])
                          THEN segment_files[i]
                          ELSE base_url \o segment_files[i]

\* C10 amended (urljoin): references are resolved as URI references
\* against base_url.  A plain path of names is fetched from base_url
\* followed by it and an absolute reference as it is, but a reference that
\* begins with one "/" is fetched from the host's root and ".." from the
\* directory above the playlist's.
C10_UrlJoinResolution ==
    pc = "await_gather"
      => /\ Len(tasks) = Len(segment_files)
         /\ \A i \in 1..Len(tasks) :
              LET r == segment_files[i]
                  fetched == tasks[i].url
              IN  /\ AbsoluteRef(r) => fetched = r
                  /\ PlainPath(r) => fetched = base_url \o r
                  /\ (r[1] = "/" /\ PlainPath(Tail(r)))
                       => fetched = Origin(base_url) \o r
                  /\ r = << ".", "." >> => fetched = ParentDir(base_url)

\* C10 witness: "../a" listed by the playlist https://x/a/b/index.m3u8 is
\* fetched from https://x/a/a.
C10_Witness ==
    /\ pc = "await_gather"
    /\ base_url = << "https", ":", "/", "/", "x", "/", "a", "/", "b", "/" >>
    /\ segment_files = << << ".", ".", "/", "a" >> >>
    /\ tasks[1].url = << "https", ":", "/", "/", "x", "/", "a", "/", "a" >>

(***************************************************************************)
(* C11.  No stage is tried twice.                                          *)
(***************************************************************************)
\* The tasks stand one to one for the positions of the playlist.
OneTaskPerPosition ==
    /\ Len(tasks) = Len(segment_files)
    /\ \A i \in 1..Len(tasks) :
         tasks[i].url[Len(tasks[i].url)]
             = segment_files[i][Len(segment_files[i])]

\* A task that has answered is not sent again.
NoTaskRestarts ==
    /\ tasks # <<>> => tasks' # <<>> /\ Len(tasks') = Len(tasks)
    /\ \A i \in 1..Len(tasks) :
         /\ tasks[i].state # "requesting" => tasks'[i].state # "requesting"
         /\ tasks[i].state \notin {"requesting", "reading"}
                => tasks'[i] = tasks[i]

\* C11: within one run the playlist URL is requested at most once, exactly
\* one fetch task is started for each position of the playlist (a reference
\* listed twice is fetched once for each of its positions) and a task that
\* has answered or failed is never sent again, and ffmpeg is invoked at
\* most once.
C11_NoRetries ==
    /\ [](/\ playlist_requests <= 1
          /\ Len(ffmpeg) <= 1
          /\ (tasks # <<>> \/ BeyondSegments) => OneTaskPerPosition)
    /\ [][NoTaskRestarts]_vars

\* A finished run that requested the playlist, fetched a playlist naming one
\* segment twice and another segment, and ran ffmpeg.
C11_Witness ==
    /\ pc = "exited"
    /\ playlist_requests = 1
    /\ Len(ffmpeg) = 1
    /\ Len(tasks) = 3
    /\ segment_files[1] = segment_files[3]
    /\ segment_files[1] # segment_files[2]
    /\ AllDone

(***************************************************************************)
(* C12.  The browser, the segment fetches and ffmpeg.                      *)
(***************************************************************************)
InFlight(t) == t.state \in {"requesting", "reading"}

AnyInFlight == \E i \in 1..Len(tasks) : InFlight(tasks[i])

\* The step is a call into the browser: it starts it, inspects the page
\* or quits it.
BrowserStep ==
    \/ driver' # driver
    \/ pc = "discover" /\ pc' # pc

\* The step runs ffmpeg.
TranscoderStep == ffmpeg' # ffmpeg

\* The step advances a fetch task.
FetchStep ==
    \E i \in 1..Len(tasks) :
        /\ InFlight(tasks[i])
        /\ Len(tasks') = Len(tasks)
        /\ tasks'[i] # tasks[i]
        /\ tasks'[i].state # "cancelled"

\* C12 as stated: in no reachable state is a segment fetch in flight while
\* the browser session is active.
C12_NoFetchWhileBrowserOpen == ~(driver = "active" /\ AnyInFlight)

\* C12, amended: a call into the browser, a run of ffmpeg and the advance
\* of a fetch task are never the same step; the browser is started and the
\* page inspected before any fetch task exists, ffmpeg runs only when every
\* fetch task has returned, and no fetch task advances once ffmpeg has run.
\* The browser session stays open while the fetch tasks run and while
\* ffmpeg runs: it is quit only afterwards.
C12_CallsNeverOverlap ==
    /\ [][/\ BrowserStep =>
               /\ ~TranscoderStep
               /\ tasks' = tasks
               /\ (driver' = "active" => tasks = <<>>)
               /\ (pc = "discover" => tasks = <<>>)
          /\ TranscoderStep =>
               /\ ~AnyInFlight
               /\ AllDone
               /\ tasks' = tasks
               /\ driver = "active"
          /\ FetchStep =>
               /\ ~BrowserStep
               /\ ~TranscoderStep
               /\ ffmpeg = <<>>
               /\ driver = "active"]_vars
    /\ [](driver = "quit" => pc \in {"cleanup", "returned", "exited"})

\* The browser session is open, one segment has arrived and another is
\* being read.
C12_Witness ==
    /\ driver = "active"
    /\ \E i, j \in 1..Len(tasks) :
         tasks[i].state = "done" /\ tasks[j].state = "reading"

(***************************************************************************)
(* C13.  Two runs on the same playlist.                                    *)
(***************************************************************************)
\* C13: when the command is run twice against the same playlist text and
\* the same segment bytes, and each run gets as far as joining the
\* segments, the second run's assembled stream is byte for byte the first
\* run's, whatever order the fetches of either run completed in.
C13_SameStreamEveryRun ==
    (run = 2 /\ prev_stream # <<>> /\ video_data # <<>>)
        => video_data = prev_stream

\* A second run has joined its segments, which arrived last first, after a
\* first run that had joined its own; the two segments differ.
C13_Witness ==
    /\ run = 2
    /\ prev_stream # <<>>
    /\ pc = "write_temp"
    /\ done_order = << 2, 1 >>
    /\ tasks[1].data # tasks[2].data
    /\ video_data = prev_stream

(***************************************************************************)
(* C14.  The exit status.                                                  *)
(***************************************************************************)
Interrupted == failed_stage = "interrupt"

\* The run did everything: download() returned True to main().
FullySucceeded == result = "True" /\ ~Interrupted

\* C14: the command exits with status 0 if and only if the pipeline fully
\* succeeded, that is, download() returned True and no interrupt ended the
\* run; a run that failed at any stage, an interrupted run and a run an
\* exception left all exit with a status that is not 0.
C14_ExitContract ==
    /\ pc = "exited" =>
         /\ exit_code \in {0, 1}
         /\ exit_code = 0 <=> FullySucceeded
         /\ (Interrupted \/ result # "True") => exit_code # 0
         /\ exit_code = 0 =>
              /\ Len(ffmpeg) = 1
              /\ ffmpeg[1].outcome = "exit0"
              /\ output_file.exists
    /\ pc # "exited" => exit_code = -1

\* The user interrupted a run whose segments were still being fetched, and
\* the command has exited with 1.
C14_Witness ==
    /\ pc = "exited"
    /\ Interrupted
    /\ exit_code = 1
    /\ result = "raised"
    /\ \E i \in 1..Len(tasks) : tasks[i].state = "cancelled"
    /\ \E i \in 1..Len(tasks) : tasks[i].state = "done"

(***************************************************************************)
(* C15.  The output file.                                                  *)
(***************************************************************************)
\* The stages that come before the remux.
StagesBeforeRemux ==
    {"validation", "discovery", "playlist_fetch", "parse", "segments",
     "write"}

FailingStages ==
    {"validation", "discovery", "playlist_fetch", "parse", "segments",
     "write", "remux"}

BrowserCreated == driver # "none"

\* C17: on every path of download() on which the browser session was
\* created, driver.quit() has been called exactly once when download()
\* returns, whether the run succeeded, failed at a later stage or returned
\* early from discovery; it is never called twice and never without a
\* session; and the cleanup of the temporary files starts only after the
\* quit.
C17_BrowserQuitOnce ==
    /\ [](/\ quit_calls <= 1
          /\ ~BrowserCreated => quit_calls = 0
          /\ driver = "quit" <=> quit_calls = 1
          /\ (Returned /\ BrowserCreated) =>
                 (driver = "quit" /\ quit_calls = 1)
          /\ (pc = "cleanup" \/ cleanup_called) => driver # "active")
    /\ [][(cleanup_called' /\ ~cleanup_called) =>
             (driver # "active" /\ driver' = driver)]_vars

\* Discovery found no video and returned early; the browser has been quit
\* once and the cleanup has run after it.
C17_Witness ==
    /\ pc = "returned"
    /\ failed_stage = "discovery"
    /\ video_src = <<>>
    /\ driver = "quit"
    /\ quit_calls = 1
    /\ cleanup_called

(***************************************************************************)
(* C18.  The validation gate.                                              *)
(***************************************************************************)
\* The host of a netloc: what follows the userinfo and its "@", if any.
HostOf(netloc) ==
    IF Positions(netloc, "@") = {} THEN netloc
    ELSE SubSeq(netloc, SetMax(Positions(netloc, "@")) + 1, Len(netloc))

\* C18: when the host of the page URL does not contain wildberries.ru,
\* download() returns False and the run has launched no browser, sent no
\* HTTP request, written no intermediate file and run no ffmpeg.
C18_ValidationGate ==
    "wildberries.ru" \notin Range(HostOf(url)) =>
        /\ driver = "none"
        /\ quit_calls = 0
        /\ playlist_requests = 0
        /\ tasks = <<>>
        /\ ~temp_dir.ts_exists
        /\ ffmpeg = <<>>
        /\ pc # "validate" => (Returned /\ result = "False")

=============================================================================
